---- MODULE Spec2Model ----
(***************************************************************************)
(* Model of cdk/lib/lambda/ses_verification_handler.py: the custom         *)
(* resource handler that starts an SES domain verification, publishes the  *)
(* token as a Route 53 TXT record and removes the record on teardown.      *)
(* Strings the code builds or compares are sequences of one-character      *)
(* strings, so that concatenation and rstrip are computed, not assumed.    *)
(***************************************************************************)
EXTENDS Integers, Sequences, FiniteSets, TLC

(* ------------------------------ bounds --------------------------------- *)
MaxDomainLen == 3
MaxInvocations == 2

(* ------------------------------ inputs --------------------------------- *)
RequestTypes == {"Create", "Update", "Delete", "Replace"}
ZoneIds == {"Z1", "Z2"}
Regions == {"us-east-1", "eu-west-1"}
Tokens == {<<"t">>, <<"u">>}
ChangeIds == {"/change/C1", "/change/C2"}
ServiceErrors == {"ClientError", "EndpointConnectionError"}

\* a domain name: labels "a" joined by dots, written with or without the
\* trailing root dot
WellFormed(s) ==
    \A i \in 1..Len(s) : s[i] = (IF i % 2 = 1 THEN "a" ELSE ".")

Domains ==
    {s \in UNION {[1..n -> {"a", "."}] : n \in 1..MaxDomainLen} : WellFormed(s)}

(* ------------------------- strings of the code ------------------------- *)
\* f"_amazonses.{domain_name}"
RecordName(domain_name) ==
    <<"_", "a", "m", "a", "z", "o", "n", "s", "e", "s", ".">> \o domain_name

\* f"ses-verification-{domain_name}"
PhysicalResourceId(domain_name) ==
    <<"s", "e", "s", "-", "v", "e", "r", "i", "f", "i", "c", "a", "t", "i",
      "o", "n", "-">> \o domain_name

\* the token written into the record without its quotes
Quoted_bare(verification_token) == verification_token

\* f'"{verification_token}"'
Quoted(verification_token) == <<"\"">> \o verification_token \o <<"\"">>

RECURSIVE rstrip(_, _)
\* str.rstrip(c): removes every trailing occurrence of c
rstrip(s, c) ==
    IF Len(s) > 0 /\ s[Len(s)] = c
    THEN rstrip(SubSeq(s, 1, Len(s) - 1), c)
    ELSE s

\* the record set built on Create/Update
UpsertRecordSet(domain_name, verification_token) ==
    [Name |-> RecordName(domain_name),
     Type |-> "TXT",
     TTL |-> 300,
     ResourceRecords |-> <<[Value |-> Quoted(verification_token)]>>]

\* the scan compares names only
Matches_any_type(record_set, record_name) ==
    rstrip(record_set.Name, ".") = record_name

\* the test of the scan in delete_verification
Matches(record_set, record_name) ==
    /\ rstrip(record_set.Name, ".") = record_name
    /\ record_set.Type = "TXT"

\* the scan keeps the last hit instead of breaking at the first
FirstMatch_last(record_sets, record_name) ==
    LET hits == {i \in 1..Len(record_sets) : Matches(record_sets[i], record_name)}
    IN IF hits = {} THEN 0 ELSE CHOOSE i \in hits : \A j \in hits : i >= j

\* index of the first record set the scan deletes, 0 when the loop runs out
FirstMatch(record_sets, record_name) ==
    LET hits == {i \in 1..Len(record_sets) : Matches(record_sets[i], record_name)}
    IN IF hits = {} THEN 0 ELSE CHOOSE i \in hits : \A j \in hits : i <= j

(* ------------------------------ events --------------------------------- *)
Restrict(f, S) == [k \in S |-> f[k]]

FullEvents ==
    {[RequestType |-> t,
      ResourceProperties |-> [DomainName |-> d, HostedZoneId |-> z, Region |-> r]] :
        t \in RequestTypes, d \in Domains, z \in ZoneIds, r \in Regions}

TopFields == {"RequestType", "ResourceProperties"}
PropFields == {"DomainName", "HostedZoneId", "Region"}

\* ev with the fields of `gone` removed
Without(ev, gone) ==
    LET top == TopFields \ gone
        stripped == [k \in top |->
                       IF k = "ResourceProperties"
                       THEN Restrict(ev.ResourceProperties, PropFields \ gone)
                       ELSE ev[k]]
    IN stripped

Events ==
    {Without(ev, gone) : ev \in FullEvents,
        gone \in SUBSET (TopFields \cup PropFields)}

\* Region is read only on the path that uses it
MissingField_lazy(ev) ==
    IF "RequestType" \notin DOMAIN ev THEN "RequestType"
    ELSE IF "ResourceProperties" \notin DOMAIN ev THEN "ResourceProperties"
    ELSE IF "DomainName" \notin DOMAIN ev.ResourceProperties THEN "DomainName"
    ELSE IF "HostedZoneId" \notin DOMAIN ev.ResourceProperties THEN "HostedZoneId"
    ELSE IF ev.RequestType # "Delete" /\ "Region" \notin DOMAIN ev.ResourceProperties
         THEN "Region"
    ELSE ""

\* the first subscript of lines 13-17 that raises KeyError, "" when none does
MissingField(ev) ==
    IF "RequestType" \notin DOMAIN ev THEN "RequestType"
    ELSE IF "ResourceProperties" \notin DOMAIN ev THEN "ResourceProperties"
    ELSE IF "DomainName" \notin DOMAIN ev.ResourceProperties THEN "DomainName"
    ELSE IF "HostedZoneId" \notin DOMAIN ev.ResourceProperties THEN "HostedZoneId"
    ELSE IF "Region" \notin DOMAIN ev.ResourceProperties THEN "Region"
    ELSE ""

(* --------------------------- the DNS service --------------------------- *)
\* Route 53 stores and lists names fully qualified, with one trailing dot
Fqdn(name) == IF Len(name) > 0 /\ name[Len(name)] = "." THEN name ELSE name \o <<".">>

SetId(rs) == IF "SetIdentifier" \in DOMAIN rs THEN rs.SetIdentifier ELSE ""

SameKey(a, b) ==
    /\ Fqdn(a.Name) = Fqdn(b.Name)
    /\ a.Type = b.Type
    /\ SetId(a) = SetId(b)

Stored(rs) == [rs EXCEPT !.Name = Fqdn(rs.Name)]

\* record sets other users of the zones may own before the handler runs
PreExisting ==
    {[Name |-> Fqdn(RecordName(<<"a">>)), Type |-> "TXT", TTL |-> 60,
      ResourceRecords |-> <<[Value |-> Quoted(<<"x">>)]>>,
      SetIdentifier |-> "w1", Weight |-> 1],
     [Name |-> Fqdn(RecordName(<<"a">>)), Type |-> "TXT", TTL |-> 60,
      ResourceRecords |-> <<[Value |-> Quoted(<<"y">>)]>>,
      SetIdentifier |-> "w2", Weight |-> 1],
     [Name |-> Fqdn(RecordName(<<"a">>)), Type |-> "MX", TTL |-> 60,
      ResourceRecords |-> <<[Value |-> <<"m">>]>>]}

\* an UPSERT is rejected when the name and type are held under another routing policy
UpsertAllowed(records, rs) ==
    \A o \in records :
        (Fqdn(o.Name) = Fqdn(rs.Name) /\ o.Type = rs.Type) => SetId(o) = SetId(rs)

Upsert(records, rs) == {o \in records : ~SameKey(o, rs)} \cup {Stored(rs)}

\* a DELETE is rejected unless the record set is the stored one
DeleteAllowed(records, rs) == Stored(rs) \in records

Delete(records, rs) == records \ {Stored(rs)}

\* record sets at the key a listing starts with
AtStart(records, name, type) ==
    {o \in records : Fqdn(o.Name) = Fqdn(name) /\ o.Type = type}

\* the sequences that enumerate the set S once each
Orderings(S) ==
    {f \in [1..Cardinality(S) -> S] : \A i, j \in 1..Cardinality(S) : f[i] = f[j] => i = j}

\* the listings a zone may answer with: everything at the start key, and any
\* of its other record sets, in the order the service chooses
Listings(records, name, type) ==
    UNION {Orderings(S) :
             S \in {T \in SUBSET records : AtStart(records, name, type) \subseteq T}}

(* ------------------------------- state --------------------------------- *)
VARIABLES
    pc,          \* position of the invocation
    event,       \* the event being handled
    token,       \* verification_token
    listed,      \* response['ResourceRecordSets']
    calls,       \* remote calls of this invocation, in order
    outcome,     \* what the invocation gave its caller
    zone,        \* record sets of each hosted zone
    before,      \* the zones as the invocation found them
    last,        \* summary of the previous invocation
    issued,      \* <<domain, PhysicalResourceId>> of every Result returned
    invocations  \* invocations started

vars == <<pc, event, token, listed, calls, outcome, zone, before, last, issued,
          invocations>>

NoEvent == [none |-> TRUE]
NoOutcome == [kind |-> "none"]
NoLast == [kind |-> "none"]

Returned(result) == [kind |-> "returned", result |-> result]
Raised(error) == [kind |-> "raised", error |-> error]

props == event.ResourceProperties
domain_name == props.DomainName
hosted_zone_id == props.HostedZoneId
region == props.Region

Init ==
    /\ pc = "idle"
    /\ event = NoEvent
    /\ token = <<>>
    /\ listed = <<>>
    /\ calls = <<>>
    /\ outcome = NoOutcome
    \* Z1 may be shared with other owners, Z2 starts empty
    /\ zone \in {[z \in ZoneIds |-> IF z = "Z1" THEN r ELSE {}] : r \in {{}, PreExisting}}
    /\ before = zone
    /\ last = NoLast
    /\ issued = {}
    /\ invocations = 0

(* ------------------------------ handler -------------------------------- *)
\* every type that is not Create or Update is taken for a Delete
Dispatch_default_delete(ev) ==
    IF MissingField(ev) # "" THEN [pc |-> "done", outcome |-> Raised("KeyError")]
    ELSE IF ev.RequestType = "Create" \/ ev.RequestType = "Update"
         THEN [pc |-> "verify", outcome |-> NoOutcome]
    ELSE [pc |-> "list", outcome |-> NoOutcome]

\* lines 8-30: read the fields, dispatch on RequestType
Dispatch(ev) ==
    IF MissingField(ev) # "" THEN [pc |-> "done", outcome |-> Raised("KeyError")]
    ELSE IF ev.RequestType = "Create" \/ ev.RequestType = "Update"
         THEN [pc |-> "verify", outcome |-> NoOutcome]
    ELSE IF ev.RequestType = "Delete"
         THEN [pc |-> "list", outcome |-> NoOutcome]
    ELSE [pc |-> "done", outcome |-> Raised("ValueError")]

handler ==
    /\ pc = "idle"
    /\ invocations < MaxInvocations
    /\ \E ev \in Events :
        /\ event' = ev
        /\ pc' = Dispatch(ev).pc
        /\ outcome' = Dispatch(ev).outcome
    /\ invocations' = invocations + 1
    /\ token' = <<>>
    /\ listed' = <<>>
    /\ calls' = <<>>
    /\ before' = zone
    /\ UNCHANGED <<zone, last, issued>>

(* ------------------- create_or_update_verification --------------------- *)
VerifyCall(ok, gave) ==
    [api |-> "verify_domain_identity", Region |-> region,
     Domain |-> domain_name, ok |-> ok, gave |-> gave]

ChangeCall(action, record_set, ok, gave) ==
    [api |-> "change_resource_record_sets", HostedZoneId |-> hosted_zone_id,
     Changes |-> <<[Action |-> action, ResourceRecordSet |-> record_set]>>,
     ok |-> ok, gave |-> gave]

\* the error is logged and a Result returned, as on Delete
CreateFailure_swallows(e) ==
    Returned([PhysicalResourceId |-> PhysicalResourceId(domain_name)])

\* lines 76-78: log and re-raise
CreateFailure(e) == Raised(e)

\* a failed verify-domain call is tried again
verify_domain_identity_retry ==
    /\ pc = "verify"
    /\ \/ \E t \in Tokens :
            /\ token' = t
            /\ calls' = Append(calls, VerifyCall(TRUE, t))
            /\ pc' = "upsert"
            /\ UNCHANGED outcome
       \/ \E e \in ServiceErrors :
            /\ calls' = Append(calls, VerifyCall(FALSE, e))
            /\ IF Len(calls) = 0
               THEN pc' = "verify" /\ UNCHANGED outcome
               ELSE pc' = "done" /\ outcome' = CreateFailure(e)
            /\ UNCHANGED token
    /\ UNCHANGED <<event, listed, zone, before, last, issued, invocations>>

\* lines 39-40, and 76-78 when the call raises
verify_domain_identity ==
    /\ pc = "verify"
    /\ \/ \E t \in Tokens :
            /\ token' = t
            /\ calls' = Append(calls, VerifyCall(TRUE, t))
            /\ pc' = "upsert"
            /\ UNCHANGED outcome
       \/ \E e \in ServiceErrors :
            /\ calls' = Append(calls, VerifyCall(FALSE, e))
            /\ outcome' = CreateFailure(e)
            /\ pc' = "done"
            /\ UNCHANGED token
    /\ UNCHANGED <<event, listed, zone, before, last, issued, invocations>>

\* the identifier is built from the domain and the issued token
CreateResult_token(change_id) ==
    [PhysicalResourceId |-> PhysicalResourceId(domain_name \o token),
     Data |-> [VerificationToken |-> token,
               RecordName |-> RecordName(domain_name),
               ChangeId |-> change_id]]

\* lines 67-74
CreateResult(change_id) ==
    [PhysicalResourceId |-> PhysicalResourceId(domain_name),
     Data |-> [VerificationToken |-> token,
               RecordName |-> RecordName(domain_name),
               ChangeId |-> change_id]]

\* lines 45-74, and 76-78 when the call raises
upsert_record ==
    /\ pc = "upsert"
    /\ LET record_set == UpsertRecordSet(domain_name, token) IN
       \/ /\ UpsertAllowed(zone[hosted_zone_id], record_set)
          /\ \E change_id \in ChangeIds :
                /\ outcome' = Returned(CreateResult(change_id))
                /\ calls' = Append(calls, ChangeCall("UPSERT", record_set, TRUE, change_id))
          /\ zone' = [zone EXCEPT ![hosted_zone_id] = Upsert(@, record_set)]
       \/ /\ \E e \in ServiceErrors :
                /\ outcome' = CreateFailure(e)
                /\ calls' = Append(calls, ChangeCall("UPSERT", record_set, FALSE, e))
          /\ UNCHANGED zone
    /\ pc' = "done"
    /\ UNCHANGED <<event, token, listed, before, last, issued, invocations>>

(* ------------------------- delete_verification ------------------------- *)
ListCall(ok, gave) ==
    [api |-> "list_resource_record_sets", HostedZoneId |-> hosted_zone_id,
     StartRecordName |-> RecordName(domain_name), StartRecordType |-> "TXT",
     ok |-> ok, gave |-> gave]

\* lines 112-114
DeleteResult == [PhysicalResourceId |-> PhysicalResourceId(domain_name)]

\* the error is logged and re-raised, as on Create
DeleteFailure_raises(e) == Raised(e)

\* lines 116-121: log and return the same Result
DeleteFailure(e) == Returned(DeleteResult)

\* lines 86-96, 112-114 when the scan finds nothing, 116-121 when the call raises
list_resource_record_sets ==
    /\ pc = "list"
    /\ \/ \E record_sets \in Listings(zone[hosted_zone_id], RecordName(domain_name), "TXT") :
            /\ listed' = record_sets
            /\ calls' = Append(calls, ListCall(TRUE, record_sets))
            /\ IF FirstMatch(record_sets, RecordName(domain_name)) = 0
               THEN pc' = "done" /\ outcome' = Returned(DeleteResult)
               ELSE pc' = "delete" /\ UNCHANGED outcome
       \/ \E e \in ServiceErrors :
            /\ calls' = Append(calls, ListCall(FALSE, e))
            /\ outcome' = DeleteFailure(e)
            /\ pc' = "done"
            /\ UNCHANGED listed
    /\ UNCHANGED <<event, token, zone, before, last, issued, invocations>>

\* lines 97-114, and 116-121 when the call raises
delete_record ==
    /\ pc = "delete"
    /\ LET record_set == listed[FirstMatch(listed, RecordName(domain_name))] IN
       \/ /\ DeleteAllowed(zone[hosted_zone_id], record_set)
          /\ calls' = Append(calls, ChangeCall("DELETE", record_set, TRUE, "unread"))
          /\ zone' = [zone EXCEPT ![hosted_zone_id] = Delete(@, record_set)]
          /\ outcome' = Returned(DeleteResult)
       \/ /\ \E e \in ServiceErrors :
                /\ calls' = Append(calls, ChangeCall("DELETE", record_set, FALSE, e))
                /\ outcome' = DeleteFailure(e)
          /\ UNCHANGED zone
    /\ pc' = "done"
    /\ UNCHANGED <<event, token, listed, before, last, issued, invocations>>

(* ------------------------- end of an invocation ------------------------ *)
AllCallsOk == \A i \in 1..Len(calls) : calls[i].ok

\* the runtime hands the outcome to the deployment engine
complete ==
    /\ pc = "done"
    /\ pc' = "idle"
    /\ last' = IF outcome.kind = "returned"
               THEN [kind |-> "returned",
                     RequestType |-> event.RequestType,
                     DomainName |-> domain_name,
                     HostedZoneId |-> hosted_zone_id,
                     ok |-> AllCallsOk,
                     before |-> before[hosted_zone_id]]
               ELSE [kind |-> "raised"]
    /\ issued' = IF outcome.kind = "returned"
                 THEN issued \cup {<<domain_name, outcome.result.PhysicalResourceId>>}
                 ELSE issued
    /\ event' = NoEvent
    /\ token' = <<>>
    /\ listed' = <<>>
    /\ calls' = <<>>
    /\ outcome' = NoOutcome
    /\ UNCHANGED <<zone, before, invocations>>

Next ==
    \/ handler
    \/ verify_domain_identity
    \/ upsert_record
    \/ list_resource_record_sets
    \/ delete_record
    \/ complete

Spec == Init /\ [][Next]_vars

(* ------------------------------- claims -------------------------------- *)
\* the event carries RequestType, ResourceProperties and the three properties
HasAllFields(ev) ==
    /\ {"RequestType", "ResourceProperties"} \subseteq DOMAIN ev
    /\ {"DomainName", "HostedZoneId", "Region"} \subseteq DOMAIN ev.ResourceProperties

Complete == pc # "idle" /\ HasAllFields(event)
IsCreateOrUpdate == Complete /\ event.RequestType \in {"Create", "Update"}
IsDelete == Complete /\ event.RequestType = "Delete"

\* "ses-verification-" + d, written out
ExpectedId(d) ==
    <<"s", "e", "s", "-", "v", "e", "r", "i", "f", "i", "c", "a", "t", "i",
      "o", "n", "-">> \o d

\* "_amazonses." + d, written out
ExpectedName(d) ==
    <<"_", "a", "m", "a", "z", "o", "n", "s", "e", "s", ".">> \o d

\* a listed name with its trailing root-zone dot removed
StripRootDot(name) ==
    IF Len(name) > 0 /\ name[Len(name)] = "."
    THEN SubSeq(name, 1, Len(name) - 1)
    ELSE name

DeleteCalls ==
    {i \in 1..Len(calls) :
        /\ calls[i].api = "change_resource_record_sets"
        /\ calls[i].Changes[1].Action = "DELETE"}

\* C1: delete_verification never raises. Whatever the list call and the
\* DELETE change call do, a Delete ends by returning exactly
\* {PhysicalResourceId: "ses-verification-" + d}: no Data field, no exception.
C1_DeleteNeverRaises ==
    IsDelete =>
        /\ outcome.kind # "raised"
        /\ pc = "done" =>
              /\ outcome.kind = "returned"
              /\ outcome.result = [PhysicalResourceId |-> ExpectedId(domain_name)]
              /\ "Data" \notin DOMAIN outcome.result

\* a Delete that ended after its DELETE change call failed
C1_Witness ==
    /\ IsDelete
    /\ pc = "done"
    /\ Len(calls) = 2
    /\ ~calls[2].ok
    /\ outcome.kind = "returned"

\* C2: on Create or Update a failed verify-domain call or DNS change call is
\* fatal: the invocation ends by raising that error and returns no Result.
C2_CreateFailureIsFatal ==
    (IsCreateOrUpdate /\ pc = "done" /\ ~AllCallsOk) =>
        /\ outcome.kind = "raised"
        /\ outcome = [kind |-> "raised", error |-> calls[Len(calls)].gave]
        /\ "result" \notin DOMAIN outcome

\* an Update whose DNS change failed after the token was issued
C2_Witness ==
    /\ IsCreateOrUpdate
    /\ event.RequestType = "Update"
    /\ pc = "done"
    /\ Len(calls) = 2
    /\ calls[1].ok
    /\ ~calls[2].ok
    /\ outcome.kind = "raised"

\* C3: every Result carries PhysicalResourceId = "ses-verification-" + d,
\* whatever the request type, zone, region, token, change id or internal
\* outcome; so all Results returned for one domain carry one identifier, and
\* an Update returns what the earlier Create returned.
C3_PhysicalIdOfDomainOnly ==
    /\ outcome.kind = "returned" =>
          outcome.result.PhysicalResourceId = ExpectedId(domain_name)
    /\ \A p \in issued : p[2] = ExpectedId(p[1])
    /\ \A p, q \in issued : p[1] = q[1] => p[2] = q[2]
    /\ \A p \in issued :
          (outcome.kind = "returned" /\ p[1] = domain_name) =>
              outcome.result.PhysicalResourceId = p[2]

\* an Update returns for a domain that a Create in another zone and region
\* returned for before
C3_Witness ==
    /\ IsCreateOrUpdate
    /\ event.RequestType = "Update"
    /\ outcome.kind = "returned"
    /\ last.kind = "returned"
    /\ last.RequestType = "Create"
    /\ last.DomainName = domain_name
    /\ last.HostedZoneId # hosted_zone_id
    /\ <<domain_name, outcome.result.PhysicalResourceId>> \in issued

\* C4: a RequestType outside {Create, Update, Delete} raises to the caller
\* and no remote call is made, before or after the error.
C4_UnknownTypeNoSideEffects ==
    (Complete /\ event.RequestType \notin {"Create", "Update", "Delete"}) =>
        /\ pc = "done"
        /\ outcome.kind = "raised"
        /\ calls = <<>>
        /\ zone = before

\* an event of type "Replace" that carries every field has been dispatched
C4_Witness ==
    /\ Complete
    /\ event.RequestType = "Replace"
    /\ pc = "done"
    /\ outcome = [kind |-> "raised", error |-> "ValueError"]

\* C5: a Create or Update in which both calls succeed makes exactly one
\* verify-domain call for d and exactly one DNS change to zone z, a single
\* UPSERT of Name "_amazonses." + d, Type TXT, TTL 300 and one value, the
\* token in one pair of double quotes; the Result carries the unquoted
\* token, the record name and the change id that change returned.
C5_CreateSuccess ==
    (IsCreateOrUpdate /\ pc = "done" /\ AllCallsOk) =>
        /\ Len(calls) = 2
        /\ calls[1].api = "verify_domain_identity"
        /\ calls[1].Domain = domain_name
        /\ calls[2].api = "change_resource_record_sets"
        /\ calls[2].HostedZoneId = hosted_zone_id
        /\ calls[2].Changes =
              <<[Action |-> "UPSERT",
                 ResourceRecordSet |->
                    [Name |-> ExpectedName(domain_name),
                     Type |-> "TXT",
                     TTL |-> 300,
                     ResourceRecords |->
                        <<[Value |-> <<"\"">> \o calls[1].gave \o <<"\"">>]>>]]>>
        /\ outcome = [kind |-> "returned",
                      result |->
                         [PhysicalResourceId |-> ExpectedId(domain_name),
                          Data |-> [VerificationToken |-> calls[1].gave,
                                    RecordName |-> ExpectedName(domain_name),
                                    ChangeId |-> calls[2].gave]]]

\* a Create that returned after both calls succeeded
C5_Witness ==
    /\ IsCreateOrUpdate
    /\ event.RequestType = "Create"
    /\ pc = "done"
    /\ Len(calls) = 2
    /\ AllCallsOk
    /\ outcome.kind = "returned"
    /\ outcome.result.Data.VerificationToken = <<"u">>

\* the listed record sets the claims call matching
Matching(k) ==
    /\ StripRootDot(listed[k].Name) = ExpectedName(domain_name)
    /\ listed[k].Type = "TXT"

\* C6: Delete submits a DELETE change only for a listed record set whose
\* name, root dot stripped, equals "_amazonses." + d and whose type is TXT;
\* when no listed record set matches it makes one list call and no change.
C6_DeleteOnlyMatching ==
    IsDelete =>
        /\ \A i \in DeleteCalls :
              LET rs == calls[i].Changes[1].ResourceRecordSet IN
              /\ \E k \in 1..Len(listed) : listed[k] = rs
              /\ StripRootDot(rs.Name) = ExpectedName(domain_name)
              /\ rs.Type = "TXT"
        /\ \A i \in 1..Len(calls) :
              calls[i].api = "change_resource_record_sets" => i \in DeleteCalls
        /\ (pc = "done" /\ calls[1].ok /\ ~\E k \in 1..Len(listed) : Matching(k)) =>
              /\ Len(calls) = 1
              /\ calls[1].api = "list_resource_record_sets"

\* a Delete passed over a record set of another type and deleted a later one
C6_Witness ==
    /\ IsDelete
    /\ pc = "done"
    /\ Len(listed) >= 2
    /\ listed[1].Type = "MX"
    /\ DeleteCalls # {}
    /\ AllCallsOk

\* C7: an event that lacks a required field, whatever its request type, is
\* fatal: the handler raises, returns no Result and makes no remote call.
C7_MissingFieldIsFatal ==
    (pc # "idle" /\ ~HasAllFields(event)) =>
        /\ pc = "done"
        /\ outcome = [kind |-> "raised", error |-> "KeyError"]
        /\ calls = <<>>
        /\ zone = before

\* a Delete event without Region has been handled
C7_Witness ==
    /\ pc = "done"
    /\ "RequestType" \in DOMAIN event
    /\ event.RequestType = "Delete"
    /\ "ResourceProperties" \in DOMAIN event
    /\ DOMAIN event.ResourceProperties = {"DomainName", "HostedZoneId"}
    /\ outcome.kind = "raised"

\* C8: Delete submits at most one DELETE change; it is for the first matching
\* record set in listing order, sent as listed, and later matching record
\* sets stay in the zone.
C8_DeleteFirstMatchOnly ==
    IsDelete =>
        /\ Cardinality(DeleteCalls) <= 1
        /\ \A i \in DeleteCalls :
              \E k \in 1..Len(listed) :
                 /\ calls[i].Changes[1].ResourceRecordSet = listed[k]
                 /\ Matching(k)
                 /\ \A j \in 1..(k - 1) : ~Matching(j)
                 /\ calls[i].ok => zone[hosted_zone_id] = before[hosted_zone_id] \ {listed[k]}
                 /\ ~calls[i].ok => zone = before
        /\ DeleteCalls = {} => zone = before

\* a Delete removed the first of two matching record sets and left the second
C8_Witness ==
    /\ IsDelete
    /\ pc = "done"
    /\ AllCallsOk
    /\ DeleteCalls # {}
    /\ \E j, k \in 1..Len(listed) :
          /\ j < k
          /\ Matching(j)
          /\ Matching(k)
          /\ listed[j] \notin zone[hosted_zone_id]
          /\ listed[k] \in zone[hosted_zone_id]
          /\ listed[j].TTL = 60

\* C9: in a Create or Update the verify-domain call comes first, the DNS
\* change comes only after the token was returned, each is made at most
\* once, and a failed call is the last remote call of the invocation.
C9_CreateCallOrder ==
    IsCreateOrUpdate =>
        /\ Len(calls) <= 2
        /\ Len(calls) >= 1 => calls[1].api = "verify_domain_identity"
        /\ Len(calls) = 2 =>
              /\ calls[2].api = "change_resource_record_sets"
              /\ calls[1].ok
              /\ calls[1].gave = token
        /\ \A i \in 1..Len(calls) : ~calls[i].ok => (i = Len(calls) /\ pc = "done")

\* a Create whose DNS change failed after the verification was started
C9_Witness ==
    /\ IsCreateOrUpdate
    /\ event.RequestType = "Create"
    /\ pc = "done"
    /\ Len(calls) = 2
    /\ ~calls[2].ok
    /\ zone = before

\* the record sets of a zone other than the TXT record set of a name
Others(records, name) ==
    {rs \in records : ~(rs.Type = "TXT" /\ rs.Name = name)}

\* C10: after a Create(d, z) whose calls succeed and a Delete(d, z) whose
\* calls do not fail, zone z holds no TXT record set for "_amazonses." + d
\* and its other record sets are as they were, for every domain string d.
C10_CreateDeleteRoundTrip ==
    (/\ IsDelete
     /\ pc = "done"
     /\ AllCallsOk
     /\ last.kind = "returned"
     /\ last.RequestType = "Create"
     /\ last.ok
     /\ last.DomainName = domain_name
     /\ last.HostedZoneId = hosted_zone_id) =>
        LET name == Fqdn(ExpectedName(domain_name)) IN
        /\ ~\E rs \in zone[hosted_zone_id] : rs.Type = "TXT" /\ rs.Name = name
        /\ Others(zone[hosted_zone_id], name) = Others(last.before, name)
====
